---- MODULE Spec2Model ----
(***************************************************************************)
(* The iterative tool-orchestration loop of WhileLoopAgent (src/src/agent.py) *)
(* as a state machine: a run of `run`, cut at its suspension points (the    *)
(* awaited model call and each awaited tool execute), alone or interleaved   *)
(* with another run at those points.  The language model,                    *)
(* the tracing collaborator and the tools are the environment: the model's   *)
(* response is drawn from a bounded set at every round, a span.log call      *)
(* either returns or raises, and a tool's execute is computed as             *)
(* src/src/tools.py and src/src/user_service.py compute it.                  *)
(***************************************************************************)
EXTENDS Naturals, Sequences, FiniteSets, TLC

\* Largest max_iterations an agent is configured with.
MaxBudget == 2

\* Largest number of tool-call requests the model issues over one run.
MaxRequests == 3

\* Largest number of tool-call requests one of several interleaved runs makes.
MaxRunRequests == 1

VARIABLES
    options_tools,   \* options.tools: the tools the agent is constructed with
    tools,           \* self.tools: the registry, name -> tool
    max_iterations,  \* self.max_iterations
    tracing,         \* the tracing collaborator: "reliable" or "faulty"
    pc,              \* position of run: idle, loop, model, tools, exec, returned, raised
    messages,        \* the transcript
    iterations,      \* the iteration counter
    done,            \* the ANSWERED flag
    message,         \* the assistant message of the current round
    tool_results,    \* the tool-result messages of the current round
    tool_call_i,     \* position in message.tool_calls of the for loop
    result,          \* the value run returned
    metrics,         \* the metrics logged with the result
    raised,          \* the failure that left run: none, model, tool, trace
    store,           \* mock_users' subscriptions: shared by every run of the process
    current,         \* the run invocation the event loop is executing
    suspended,       \* the frames of the run invocations that wait at an await
    applied,         \* history: the update_subscription calls completed, in order
    received,        \* history: the outputs this run's executes returned
    modelCalls,      \* history: model calls issued
    modelFailed,     \* history: a model call failed
    executed         \* history: the requests whose execute was invoked

vars == <<options_tools, tools, max_iterations, tracing, pc, messages, iterations, done,
          message, tool_results, tool_call_i, result, metrics, raised,
          modelCalls, modelFailed, executed, store, current, suspended, applied,
          received>>

\* What no step of run writes besides the registry and the configuration.
others == <<options_tools, current, suspended>>

\* What only a tool's execute writes.
effects == <<store, applied, received>>

----------------------------------------------------------------------------
(* Message contents.  A content is None, a text, or a list of parts; a part *)
(* either carries a "text" key or does not.                                 *)

NoContent == [kind |-> "none", text |-> "", parts |-> <<>>]

Text(s) == [kind |-> "text", text |-> s, parts |-> <<>>]

Parts(ps) == [kind |-> "parts", text |-> "", parts |-> ps]

TextPart(s) == [type |-> "text", has_text |-> TRUE, text |-> s]

ImagePart == [type |-> "image_url", has_text |-> FALSE, text |-> ""]

\* Mutant of Truthy: only None is falsy.
TruthyNotNone(content) == content.kind # "none"

\* Python truthiness of a content: None, "" and [] are falsy.
Truthy(content) ==
    CASE content.kind = "none" -> FALSE
      [] content.kind = "text" -> content.text # ""
      [] content.kind = "parts" -> content.parts # <<>>

RECURSIVE JoinText(_)
\* "".join(part.get("text", "") for part in content if "text" in part)
JoinText(ps) ==
    IF ps = <<>> THEN ""
    ELSE (IF Head(ps).has_text THEN Head(ps).text ELSE "") \o JoinText(Tail(ps))

\* Mutant of FinalContent: only the first part of a list is returned.
FinalContentFirstPart(content) ==
    IF content.kind = "parts" THEN Head(content.parts).text ELSE content.text

\* The content run returns for a truthy content of the last message.
FinalContent(content) ==
    IF content.kind = "parts" THEN JoinText(content.parts) ELSE content.text

fallback_message == "Agent reached maximum iterations without completing the task."

----------------------------------------------------------------------------
(* Messages of the transcript.                                              *)

NoId == ""

Msg(role, content, calls, id) ==
    [role |-> role, content |-> content, tool_calls |-> calls, tool_call_id |-> id]

NoMessage == Msg("", NoContent, <<>>, NoId)

system_prompt == "You are a helpful assistant."

SystemMessage == Msg("system", Text(system_prompt), <<>>, NoId)

UserMessage(user_message) == Msg("user", Text(user_message), <<>>, NoId)

AssistantMessage(content, calls) == Msg("assistant", content, calls, NoId)

\* Mutant of ToolMessage: the text is serialized once more.
ToolMessageQuoted(id, text) == Msg("tool", Text("\"" \o text \o "\""), <<>>, id)

\* Mutant of ToolMessage: the tool_call_id is left out.
ToolMessageNoId(id, text) == Msg("tool", Text(text), <<>>, NoId)

ToolMessage(id, text) == Msg("tool", Text(text), <<>>, id)

Last(s) == s[Len(s)]

----------------------------------------------------------------------------
(* The tools of src/src/tools.py and the registry built from them.          *)

Tool(name, parameters, required, execute) ==
    [name |-> name, parameters |-> parameters, required |-> required,
     execute |-> execute]

NoTool == Tool("", "", {}, "")

notify_customer_tool ==
    Tool("notify_customer", "NotifyCustomerSchema", {"customerEmail", "message"},
         "notify_customer_execute")

search_users_tool ==
    Tool("search_users", "SearchUsersSchema", {}, "search_users_execute")

get_user_details_tool ==
    Tool("get_user_details", "GetUserDetailsSchema", {"email"}, "get_user_details_execute")

update_subscription_tool ==
    Tool("update_subscription", "UpdateSubscriptionSchema", {"email"},
         "update_subscription_execute")

get_all_tools ==
    <<notify_customer_tool, search_users_tool, get_user_details_tool,
      update_subscription_tool>>

\* A tool registered under a name get_all_tools already uses: the schema and
\* the execute of get_user_details under the name search_users.
details_as_search_tool ==
    Tool("search_users", "GetUserDetailsSchema", {"email"}, "get_user_details_execute")

\* Tool lists with a duplicate name, the duplicate registered last or first.
DuplicateToolLists ==
    { get_all_tools \o <<details_as_search_tool>>,
      <<details_as_search_tool>> \o get_all_tools }

MaxOf(S) == CHOOSE x \in S : \A y \in S : y <= x

\* Mutant of BuildRegistry: the first tool registered under a name is kept.
BuildRegistryFirstWins(ts) ==
    [n \in {ts[i].name : i \in DOMAIN ts} |->
        ts[CHOOSE i \in DOMAIN ts :
              ts[i].name = n /\ \A j \in DOMAIN ts : ts[j].name = n => i <= j]]

\* {tool.name: tool for tool in options.tools}: a later entry replaces an earlier one.
BuildRegistry(ts) ==
    [n \in {ts[i].name : i \in DOMAIN ts} |->
        ts[MaxOf({i \in DOMAIN ts : ts[i].name = n})]]

\* self.tools.get(name)
Lookup(name) == IF name \in DOMAIN tools THEN tools[name] ELSE NoTool

----------------------------------------------------------------------------
(* Failures.                                                                *)

Err(type, msg) == [type |-> type, msg |-> msg]

NoErr == Err("", "")

ExceptionTypes == {"JSONDecodeError", "ValidationError", "ValueError", "TraceError"}

\* Mutant of ExceptException: only argument failures are caught.
ExceptArgumentErrors(type) == type \in {"JSONDecodeError", "ValidationError"}

\* `except Exception`: every failure of the try block is caught.
ExceptException(type) == type \in ExceptionTypes

TraceErr == Err("TraceError", "span log failed")

\* Mutant of ToolNotFoundError: the requested name is left out.
ToolNotFoundErrorNoName(name) == "Error: Tool not found"

\* f"Error: Tool {tool_call.function.name} not found"
ToolNotFoundError(name) == "Error: Tool " \o name \o " not found"

\* f"Error executing tool: {error}"
ToolExecutionError(msg) == "Error executing tool: " \o msg

----------------------------------------------------------------------------
(* Arguments: json.loads and the schema validation of tool.parameters.      *)

EmptyArgs == [key \in {} |-> ""]

BobArgsJson == "{\"email\": \"bob@co.com\"}"

JohnArgsJson == "{\"email\": \"john@co.com\"}"

JanePremiumArgsJson == "{\"email\": \"jane@co.com\", \"plan\": \"premium\"}"

JaneCancelArgsJson == "{\"email\": \"jane@co.com\", \"action\": \"cancel\"}"

JaneRenewArgsJson == "{\"email\": \"jane@co.com\", \"action\": \"renew\"}"

NobodyCancelArgsJson == "{\"email\": \"nobody@co.com\", \"action\": \"cancel\"}"

\* Mutant of JsonLoads: unparsable arguments are read as no arguments.
JsonLoadsLenient(raw) ==
    CASE raw = BobArgsJson ->
            [ok |-> TRUE, value |-> [key \in {"email"} |-> "bob@co.com"], err |-> NoErr]
      [] raw = JohnArgsJson ->
            [ok |-> TRUE, value |-> [key \in {"email"} |-> "john@co.com"], err |-> NoErr]
      [] OTHER -> [ok |-> TRUE, value |-> EmptyArgs, err |-> NoErr]

\* json.loads(tool_call.function.arguments)
JsonLoads(raw) ==
    CASE raw = "{}" -> [ok |-> TRUE, value |-> EmptyArgs, err |-> NoErr]
      [] raw = BobArgsJson ->
            [ok |-> TRUE, value |-> [key \in {"email"} |-> "bob@co.com"], err |-> NoErr]
      [] raw = JohnArgsJson ->
            [ok |-> TRUE, value |-> [key \in {"email"} |-> "john@co.com"], err |-> NoErr]
      [] raw = JanePremiumArgsJson ->
            [ok |-> TRUE, value |-> [email |-> "jane@co.com", plan |-> "premium"],
             err |-> NoErr]
      [] raw = JaneCancelArgsJson ->
            [ok |-> TRUE, value |-> [email |-> "jane@co.com", action |-> "cancel"],
             err |-> NoErr]
      [] raw = JaneRenewArgsJson ->
            [ok |-> TRUE, value |-> [email |-> "jane@co.com", action |-> "renew"],
             err |-> NoErr]
      [] raw = NobodyCancelArgsJson ->
            [ok |-> TRUE, value |-> [email |-> "nobody@co.com", action |-> "cancel"],
             err |-> NoErr]
      [] OTHER ->
            [ok |-> FALSE, value |-> EmptyArgs,
             err |-> Err("JSONDecodeError",
                         "Expecting property name enclosed in double quotes: line 1 column 2 (char 1)")]

\* tool.parameters(**args): every required field of the schema must be given.
Validate(tool, args) ==
    IF tool.required \subseteq DOMAIN args
    THEN [ok |-> TRUE, err |-> NoErr]
    ELSE [ok |-> FALSE,
          err |-> Err("ValidationError",
                      "validation error for " \o tool.parameters \o ": Field required")]

----------------------------------------------------------------------------
(* The executes the dispatched requests reach.                              *)

mock_users ==
    << [id |-> 1, name |-> "John Smith", email |-> "john@co.com"],
       [id |-> 2, name |-> "Jane Doe", email |-> "jane@co.com"],
       [id |-> 3, name |-> "Bob Wilson", email |-> "bob@co.com"] >>

DaysInJanuary == 31

CreatedDayFactor == 15

RECURSIVE FormatUsers(_, _)
\* the numbered "i. name (email)" entries of the listing, joined by blank lines
FormatUsers(us, i) ==
    IF us = <<>> THEN ""
    ELSE ToString(i) \o ". " \o Head(us).name \o " (" \o Head(us).email \o ")"
         \o (IF Len(us) > 1 THEN "\n\n" ELSE "") \o FormatUsers(Tail(us), i + 1)

\* search_users_execute with no filter given (query, plan and status absent)
search_users_execute(args) ==
    LET filtered == mock_users
        count_text == ToString(Len(filtered)) \o " user"
                      \o (IF Len(filtered) # 1 THEN "s" ELSE "")
    IN  [ok |-> TRUE,
         text |-> (IF filtered = <<>>
                   THEN "No users found matching the criteria."
                   ELSE "Found " \o count_text \o ":\n\n" \o FormatUsers(filtered, 1))
                  \o "\n\nNeed more details? Use 'get_user_details' with the user's email.",
         err |-> NoErr, store |-> store]

\* get_user_details_execute: datetime(2024, 1, user.id * 15) raises for a day past 31
get_user_details_execute(args) ==
    LET found == {i \in DOMAIN mock_users : mock_users[i].email = args["email"]}
        suffix == "\n\nActions available:\n- Use 'notify_customer' to send them an email\n- Use 'update_subscription' to modify their plan"
    IN  IF found = {}
        THEN [ok |-> TRUE,
              text |-> "No user found with email: " \o args["email"] \o suffix,
              err |-> NoErr, store |-> store]
        ELSE LET user == mock_users[CHOOSE i \in found : \A j \in found : i <= j]
             IN  IF user.id * CreatedDayFactor > DaysInJanuary
                 THEN [ok |-> FALSE, text |-> "",
                       err |-> Err("ValueError", "day is out of range for month"),
                       store |-> store]
                 ELSE [ok |-> TRUE,
                       text |-> "User Details for " \o user.name \o ":\n\nEmail: "
                                \o user.email \o "\nUser ID: " \o ToString(user.id) \o suffix,
                       err |-> NoErr, store |-> store]

\* The subscriptions of mock_users, by email: what update_subscription writes.
mock_subscriptions ==
    [email \in {mock_users[i].email : i \in DOMAIN mock_users} |->
        CASE email = "john@co.com" ->
                [plan |-> "premium", status |-> "active", expires |-> "2025-01-15T08:30:00Z"]
          [] email = "jane@co.com" ->
                [plan |-> "basic", status |-> "active", expires |-> "2024-08-20T10:15:00Z"]
          [] email = "bob@co.com" ->
                [plan |-> "premium", status |-> "expired", expires |-> "2024-02-01T12:00:00Z"]]

\* The two marks that open the messages of update_subscription, U+274C and
\* U+2713, written by their code points.
CrossMark == "<U+274C>"

CheckMark == "<U+2713>"

\* (datetime.now() + timedelta(days=365)).isoformat() + "Z": the clock's
\* reading is not modelled, every renewal writes the same expiry.
new_expiry == "<now + 365 days>Z"

NoParam == ""

\* UpdateSubscriptionParams(email, plan, action) of validated arguments
UpdateSubscriptionParams(args) ==
    [email |-> args["email"],
     plan |-> IF "plan" \in DOMAIN args THEN args["plan"] ELSE NoParam,
     action |-> IF "action" \in DOMAIN args THEN args["action"] ELSE NoParam]

UserName(email) ==
    mock_users[CHOOSE i \in DOMAIN mock_users : mock_users[i].email = email].name

RECURSIVE JoinUpdates(_)
\* ', '.join(updates)
JoinUpdates(updates) ==
    IF updates = <<>> THEN ""
    ELSE Head(updates) \o (IF Len(updates) > 1 THEN ", " ELSE "") \o JoinUpdates(Tail(updates))

\* Mutant of update_subscription: the status is not written when the
\* subscription is cancelled.
update_subscription_keeps_status(st, params) ==
    IF params.email \notin DOMAIN st
    THEN [success |-> FALSE,
          message |-> CrossMark \o " Failed to update subscription: Customer with email "
                      \o params.email \o " not found",
          store |-> st]
    ELSE LET sub == st[params.email]
             plan_changes == params.plan # NoParam /\ params.plan # sub.plan
             updates ==
                 (IF plan_changes THEN <<"plan changed to " \o params.plan>> ELSE <<>>)
                 \o (IF params.action = "renew" THEN <<"subscription renewed for 1 year">>
                     ELSE IF params.action = "cancel" THEN <<"subscription cancelled">>
                     ELSE <<>>)
             written ==
                 [plan |-> IF plan_changes THEN params.plan ELSE sub.plan,
                  status |-> IF params.action = "renew" THEN "active" ELSE sub.status,
                  expires |-> IF params.action = "renew" THEN new_expiry ELSE sub.expires]
         IN  [success |-> TRUE,
              message |-> IF updates = <<>>
                          THEN "No changes made to " \o UserName(params.email)
                               \o "'s subscription."
                          ELSE CheckMark \o " Updated " \o UserName(params.email)
                               \o "'s subscription: " \o JoinUpdates(updates),
              store |-> [st EXCEPT ![params.email] = written]]

\* UserService.update_subscription on the store st: lookup, checks and writes
\* with no await between them.
update_subscription(st, params) ==
    IF params.email \notin DOMAIN st
    THEN [success |-> FALSE,
          message |-> CrossMark \o " Failed to update subscription: Customer with email "
                      \o params.email \o " not found",
          store |-> st]
    ELSE LET sub == st[params.email]
             plan_changes == params.plan # NoParam /\ params.plan # sub.plan
             updates ==
                 (IF plan_changes THEN <<"plan changed to " \o params.plan>> ELSE <<>>)
                 \o (IF params.action = "renew" THEN <<"subscription renewed for 1 year">>
                     ELSE IF params.action = "cancel" THEN <<"subscription cancelled">>
                     ELSE <<>>)
             written ==
                 [plan |-> IF plan_changes THEN params.plan ELSE sub.plan,
                  status |-> IF params.action = "renew" THEN "active"
                             ELSE IF params.action = "cancel" THEN "expired"
                             ELSE sub.status,
                  expires |-> IF params.action = "renew" THEN new_expiry ELSE sub.expires]
         IN  [success |-> TRUE,
              message |-> IF updates = <<>>
                          THEN "No changes made to " \o UserName(params.email)
                               \o "'s subscription."
                          ELSE CheckMark \o " Updated " \o UserName(params.email)
                               \o "'s subscription: " \o JoinUpdates(updates),
              store |-> [st EXCEPT ![params.email] = written]]

\* update_subscription_execute: the result's message is the tool's output
update_subscription_execute(args) ==
    LET res == update_subscription(store, UpdateSubscriptionParams(args))
    IN  [ok |-> TRUE, text |-> res.message, err |-> NoErr, store |-> res.store]

\* await tool.execute(validated_args)
Execute(execute, args) ==
    CASE execute = "search_users_execute" -> search_users_execute(args)
      [] execute = "get_user_details_execute" -> get_user_details_execute(args)
      [] execute = "update_subscription_execute" -> update_subscription_execute(args)

----------------------------------------------------------------------------
(* The environment's inputs.                                                *)

UserMessages == {"Get details for bob@co.com"}

\* The tool-call requests the model issues: an unregistered tool, arguments
\* that are no JSON, arguments that miss a required field, a call that
\* succeeds and a call whose execute raises.
Requests ==
    { [name |-> "delete_user", arguments |-> "{}"],
      [name |-> "search_users", arguments |-> "{not json"],
      [name |-> "get_user_details", arguments |-> "{}"],
      [name |-> "search_users", arguments |-> "{}"],
      [name |-> "get_user_details", arguments |-> BobArgsJson] }

CallId(i) == "call_" \o ToString(i)

ToolCall(i, r) == [id |-> CallId(i), name |-> r.name, arguments |-> r.arguments]

ToolCallLists(n) ==
    UNION { { [i \in 1..m |-> ToolCall(i, f[i])] : f \in [1..m -> Requests] } : m \in 1..n }

AnswerText == "Here is what I found."

AnswerParts == Parts(<<TextPart("Here "), ImagePart, TextPart("it is.")>>)

RECURSIVE Requested(_)
\* the tool-call requests issued so far, over the assistant messages of the transcript
Requested(ms) ==
    IF ms = <<>> THEN 0 ELSE Len(Head(ms).tool_calls) + Requested(Tail(ms))

\* The assistant messages the model may return: text-only, empty, tool calls
\* alone, or tool calls together with text.
Responses(n) ==
    { AssistantMessage(c, <<>>) : c \in {NoContent, Text(""), Text(AnswerText), AnswerParts} }
    \cup { AssistantMessage(c, calls) :
             c \in {NoContent, Text("Let me check.")}, calls \in ToolCallLists(n) }

\* The user message of the runs that are interleaved.
SubscriptionMessages == {"Update the subscription of jane@co.com"}

\* The requests of interleaved runs: updates of one user's plan and status,
\* and an update for an email the store does not hold.
SubscriptionRequests ==
    { [name |-> "update_subscription", arguments |-> JanePremiumArgsJson],
      [name |-> "update_subscription", arguments |-> JaneCancelArgsJson],
      [name |-> "update_subscription", arguments |-> JaneRenewArgsJson],
      [name |-> "update_subscription", arguments |-> NobodyCancelArgsJson] }

SubscriptionToolCallLists(n) ==
    UNION { { [i \in 1..m |-> ToolCall(i, f[i])] : f \in [1..m -> SubscriptionRequests] } :
            m \in 1..n }

\* The assistant messages the model may return to an interleaved run: the
\* final answer, or tool calls alone.
SubscriptionResponses(n) ==
    { AssistantMessage(Text(AnswerText), <<>>) }
    \cup { AssistantMessage(NoContent, calls) : calls \in SubscriptionToolCallLists(n) }

\* What a span.log call may do: return (TRUE) or raise (FALSE).
LogResults == IF tracing = "faulty" THEN {TRUE, FALSE} ELSE {TRUE}

NoMetrics == [total_iterations |-> 0, max_iterations_reached |-> FALSE]

NoResult == ""

----------------------------------------------------------------------------
(* The run.                                                                 *)

InitRun ==
    /\ tools = BuildRegistry(options_tools)
    /\ max_iterations \in 1..MaxBudget
    /\ pc = "idle"
    /\ messages = <<>>
    /\ iterations = 0
    /\ done = FALSE
    /\ message = NoMessage
    /\ tool_results = <<>>
    /\ tool_call_i = 0
    /\ result = NoResult
    /\ metrics = NoMetrics
    /\ raised = "none"
    /\ modelCalls = 0
    /\ modelFailed = FALSE
    /\ executed = <<>>
    /\ store = mock_subscriptions
    /\ applied = <<>>
    /\ received = <<>>
    /\ current = 1

\* The locals of one run invocation, and its history.
Frame ==
    [pc |-> pc, messages |-> messages, iterations |-> iterations, done |-> done,
     message |-> message, tool_results |-> tool_results, tool_call_i |-> tool_call_i,
     result |-> result, metrics |-> metrics, raised |-> raised,
     modelCalls |-> modelCalls, modelFailed |-> modelFailed, executed |-> executed,
     received |-> received]

\* The frame of a run invocation that has not been entered yet.
NewFrame ==
    [pc |-> "idle", messages |-> <<>>, iterations |-> 0, done |-> FALSE,
     message |-> NoMessage, tool_results |-> <<>>, tool_call_i |-> 0,
     result |-> NoResult, metrics |-> NoMetrics, raised |-> "none",
     modelCalls |-> 0, modelFailed |-> FALSE, executed |-> <<>>, received |-> <<>>]

NoRuns == [r \in {} |-> NewFrame]

\* The run invocations started besides the first.
OtherRuns == {2}

Init ==
    /\ options_tools = get_all_tools
    /\ InitRun
    /\ tracing = "reliable"
    /\ suspended = NoRuns

InitTrace ==
    /\ options_tools = get_all_tools
    /\ InitRun
    /\ tracing \in {"reliable", "faulty"}
    /\ suspended = NoRuns

\* An agent constructed with a tool list that uses a name twice.
InitRegistry ==
    /\ options_tools \in DuplicateToolLists
    /\ InitRun
    /\ tracing = "reliable"
    /\ suspended = NoRuns

\* Several run invocations are started in one event loop.
InitRuns ==
    /\ options_tools = get_all_tools
    /\ InitRun
    /\ tracing = "reliable"
    /\ suspended = [r \in OtherRuns |-> NewFrame]

\* A failure leaves run: nothing after the raising statement is executed.
Propagate(kind) ==
    /\ pc' = "raised"
    /\ raised' = kind

\* run is entered: the run span logs the input, the transcript and the
\* counters are set up.
RunStart(user_message) ==
    /\ pc = "idle"
    /\ \E ok \in LogResults :
         IF ok
         THEN /\ messages' = <<SystemMessage, UserMessage(user_message)>>
              /\ iterations' = 0
              /\ done' = FALSE
              /\ pc' = "loop"
              /\ UNCHANGED raised
         ELSE /\ Propagate("trace")
              /\ UNCHANGED <<messages, iterations, done>>
    /\ UNCHANGED <<tools, max_iterations, tracing, message, tool_results, tool_call_i,
                   result, metrics, modelCalls, modelFailed, executed>>
    /\ UNCHANGED others
    /\ UNCHANGED effects

\* Mutant of LoopCond: the done flag is not consulted.
LoopCondIgnoresDone == iterations < max_iterations

\* Mutant of LoopCond: the budget test is off by one.
LoopCondOffByOne == ~done /\ iterations <= max_iterations

\* while not done and iterations < self.max_iterations
LoopCond == ~done /\ iterations < max_iterations

\* An iteration begins: the iteration span logs the transcript and the model
\* call is issued.
Iterate ==
    /\ pc = "loop"
    /\ LoopCond
    /\ \E ok \in LogResults :
         IF ok
         THEN /\ pc' = "model"
              /\ modelCalls' = modelCalls + 1
              /\ UNCHANGED raised
         ELSE /\ Propagate("trace")
              /\ UNCHANGED modelCalls
    /\ UNCHANGED <<tools, max_iterations, tracing, messages, iterations, done, message,
                   tool_results, tool_call_i, result, metrics, modelFailed, executed>>
    /\ UNCHANGED others
    /\ UNCHANGED effects

\* Mutant of ModelFail: the failure is caught and the loop goes on.
ModelFailCaught ==
    /\ pc = "model"
    /\ pc' = "loop"
    /\ iterations' = iterations + 1
    /\ modelFailed' = TRUE
    /\ UNCHANGED <<tools, max_iterations, tracing, messages, done, message, tool_results,
                   tool_call_i, result, metrics, raised, modelCalls, executed>>
    /\ UNCHANGED others
    /\ UNCHANGED effects

\* The model call fails: nothing in run catches it.
ModelFail ==
    /\ pc = "model"
    /\ Propagate("model")
    /\ modelFailed' = TRUE
    /\ UNCHANGED <<tools, max_iterations, tracing, messages, iterations, done, message,
                   tool_results, tool_call_i, result, metrics, modelCalls, executed>>
    /\ UNCHANGED others
    /\ UNCHANGED effects

\* Mutant of Answers: a message without tool calls always ends the loop.
AnswersAlways(m) == m.tool_calls = <<>>

\* elif message.content: done = True (tried only when there are no tool calls)
Answers(m) == m.tool_calls = <<>> /\ Truthy(m.content)

\* Mutant of HasToolCalls: tool calls are looked at only when there is no content.
HasToolCallsAndNoContent(m) == m.tool_calls # <<>> /\ ~Truthy(m.content)

\* if message.tool_calls
HasToolCalls(m) == m.tool_calls # <<>>

\* The model call returns: the message is appended and the round branches on it.
ModelReturn(m) ==
    /\ pc = "model"
    /\ message' = m
    /\ messages' = Append(messages, m)
    /\ \E ok \in LogResults :
         IF ~ok
         THEN /\ Propagate("trace")
              /\ UNCHANGED <<iterations, done, tool_results, tool_call_i>>
         ELSE /\ UNCHANGED raised
              /\ IF HasToolCalls(m)
                 THEN /\ tool_results' = <<>>
                      /\ tool_call_i' = 1
                      /\ pc' = "tools"
                      /\ UNCHANGED <<iterations, done>>
                 ELSE /\ done' = (done \/ Answers(m))
                      /\ iterations' = iterations + 1
                      /\ pc' = "loop"
                      /\ UNCHANGED <<tool_results, tool_call_i>>
    /\ UNCHANGED <<tools, max_iterations, tracing, result, metrics, modelCalls,
                   modelFailed, executed>>
    /\ UNCHANGED others
    /\ UNCHANGED effects

\* Mutant of Advance: the round's last result is not appended.
AdvanceDropsLast(res) ==
    /\ tool_results' = Append(tool_results, res)
    /\ UNCHANGED raised
    /\ IF tool_call_i < Len(message.tool_calls)
       THEN /\ tool_call_i' = tool_call_i + 1
            /\ pc' = "tools"
            /\ UNCHANGED <<messages, iterations>>
       ELSE /\ messages' = messages \o tool_results
            /\ iterations' = iterations + 1
            /\ pc' = "loop"
            /\ UNCHANGED tool_call_i

\* Mutant of Advance: the transcript is cut back to its head before the
\* round's results are appended.
AdvanceTruncates(res) ==
    /\ tool_results' = Append(tool_results, res)
    /\ UNCHANGED raised
    /\ IF tool_call_i < Len(message.tool_calls)
       THEN /\ tool_call_i' = tool_call_i + 1
            /\ pc' = "tools"
            /\ UNCHANGED <<messages, iterations>>
       ELSE /\ messages' = SubSeq(messages, 1, 2) \o <<message>> \o Append(tool_results, res)
            /\ iterations' = iterations + 1
            /\ pc' = "loop"
            /\ UNCHANGED tool_call_i

\* The tool-result message of the current request is collected; after the
\* last request the round's results are appended and the iteration counted.
Advance(res) ==
    /\ tool_results' = Append(tool_results, res)
    /\ UNCHANGED raised
    /\ IF tool_call_i < Len(message.tool_calls)
       THEN /\ tool_call_i' = tool_call_i + 1
            /\ pc' = "tools"
            /\ UNCHANGED <<messages, iterations>>
       ELSE /\ messages' = messages \o Append(tool_results, res)
            /\ iterations' = iterations + 1
            /\ pc' = "loop"
            /\ UNCHANGED tool_call_i

\* except Exception as error: log it and answer the request with the error text.
HandleError(err, logged) ==
    IF ~ExceptException(err.type)
    THEN /\ Propagate("tool")
         /\ UNCHANGED <<messages, iterations, tool_results, tool_call_i>>
    ELSE IF ~logged
    THEN /\ Propagate("trace")
         /\ UNCHANGED <<messages, iterations, tool_results, tool_call_i>>
    ELSE Advance(ToolMessage(message.tool_calls[tool_call_i].id,
                             ToolExecutionError(err.msg)))

\* Mutant of MayDispatch: a request is taken up while an execute is awaited.
MayDispatchWhileAwaiting == pc \in {"tools", "exec"}

\* The for loop may take up a request when none is being awaited.
MayDispatch == pc = "tools"

\* One request of the round is taken up: lookup, json.loads, validation, and
\* the tool's execute is begun.
Dispatch ==
    /\ MayDispatch
    /\ LET tool_call == message.tool_calls[tool_call_i]
           tool == Lookup(tool_call.name)
           args == JsonLoads(tool_call.arguments)
       IN  \E ok1 \in LogResults, ok2 \in LogResults :
             IF tool = NoTool
             THEN /\ IF ok1
                     THEN Advance(ToolMessage(tool_call.id, ToolNotFoundError(tool_call.name)))
                     ELSE /\ Propagate("trace")
                          /\ UNCHANGED <<messages, iterations, tool_results, tool_call_i>>
                  /\ UNCHANGED executed
             ELSE IF ~args.ok
             THEN HandleError(args.err, ok2) /\ UNCHANGED executed
             ELSE IF ~ok1
             THEN HandleError(TraceErr, ok2) /\ UNCHANGED executed
             ELSE IF ~Validate(tool, args.value).ok
             THEN HandleError(Validate(tool, args.value).err, ok2) /\ UNCHANGED executed
             ELSE /\ pc' = "exec"
                  /\ executed' = Append(executed, [round |-> iterations + 1, index |-> tool_call_i])
                  /\ UNCHANGED <<messages, iterations, tool_results, tool_call_i, raised>>
    /\ UNCHANGED <<tools, max_iterations, tracing, done, message, result, metrics,
                   modelCalls, modelFailed>>
    /\ UNCHANGED others
    /\ UNCHANGED effects

\* The awaited execute returns or raises.
ExecReturn ==
    /\ pc = "exec"
    /\ LET tool_call == message.tool_calls[tool_call_i]
           out == Execute(Lookup(tool_call.name).execute,
                          JsonLoads(tool_call.arguments).value)
       IN  /\ store' = out.store
           /\ applied' = IF Lookup(tool_call.name).execute = "update_subscription_execute"
                         THEN Append(applied, JsonLoads(tool_call.arguments).value)
                         ELSE applied
           /\ received' = Append(received, [ok |-> out.ok, text |-> out.text, err |-> out.err])
           /\ \E ok1 \in LogResults, ok2 \in LogResults :
                 IF ~out.ok
                 THEN HandleError(out.err, ok2)
                 ELSE IF ~ok1
                 THEN HandleError(TraceErr, ok2)
                 ELSE Advance(ToolMessage(tool_call.id, out.text))
    /\ UNCHANGED <<tools, max_iterations, tracing, done, message, result, metrics,
                   modelCalls, modelFailed, executed>>
    /\ UNCHANGED others

\* last_message.get("role") == "assistant" and last_message.get("content")
HasFinalMessage(last_message) ==
    last_message.role = "assistant" /\ Truthy(last_message.content)

\* Mutant of Exit: running out of iterations is raised as a failure.
ExitRaisesWhenExhausted ==
    /\ pc = "loop"
    /\ ~LoopCond
    /\ IF HasFinalMessage(Last(messages))
       THEN /\ pc' = "returned"
            /\ result' = FinalContent(Last(messages).content)
            /\ metrics' = [total_iterations |-> iterations,
                           max_iterations_reached |-> FALSE]
            /\ UNCHANGED raised
       ELSE /\ Propagate("budget")
            /\ UNCHANGED <<result, metrics>>
    /\ UNCHANGED <<tools, max_iterations, tracing, messages, iterations, done, message,
                   tool_results, tool_call_i, modelCalls, modelFailed, executed>>
    /\ UNCHANGED others
    /\ UNCHANGED effects

\* The loop is left: the last message of the transcript decides the result.
Exit ==
    /\ pc = "loop"
    /\ ~LoopCond
    /\ \E ok \in LogResults :
         IF ~ok
         THEN /\ Propagate("trace")
              /\ UNCHANGED <<result, metrics>>
         ELSE /\ pc' = "returned"
              /\ UNCHANGED raised
              /\ IF HasFinalMessage(Last(messages))
                 THEN /\ result' = FinalContent(Last(messages).content)
                      /\ metrics' = [total_iterations |-> iterations,
                                     max_iterations_reached |-> FALSE]
                 ELSE /\ result' = fallback_message
                      /\ metrics' = [total_iterations |-> iterations,
                                     max_iterations_reached |-> TRUE]
    /\ UNCHANGED <<tools, max_iterations, tracing, messages, iterations, done, message,
                   tool_results, tool_call_i, modelCalls, modelFailed, executed>>
    /\ UNCHANGED others
    /\ UNCHANGED effects

\* Where a run invocation waits: before it is entered, at the model call, at
\* a tool's execute, and after it has ended.
AtAwait == pc \in {"idle", "model", "exec", "returned", "raised"}

\* Mutant of Resume: the transcript is kept on the agent, one for all runs.
ResumeSharedTranscript(f) ==
    /\ pc' = f.pc
    /\ messages' = messages
    /\ iterations' = f.iterations
    /\ done' = f.done
    /\ message' = f.message
    /\ tool_results' = f.tool_results
    /\ tool_call_i' = f.tool_call_i
    /\ result' = f.result
    /\ metrics' = f.metrics
    /\ raised' = f.raised
    /\ modelCalls' = f.modelCalls
    /\ modelFailed' = f.modelFailed
    /\ executed' = f.executed
    /\ received' = f.received

\* A run invocation goes on with the locals it was suspended with.
Resume(f) ==
    /\ pc' = f.pc
    /\ messages' = f.messages
    /\ iterations' = f.iterations
    /\ done' = f.done
    /\ message' = f.message
    /\ tool_results' = f.tool_results
    /\ tool_call_i' = f.tool_call_i
    /\ result' = f.result
    /\ metrics' = f.metrics
    /\ raised' = f.raised
    /\ modelCalls' = f.modelCalls
    /\ modelFailed' = f.modelFailed
    /\ executed' = f.executed
    /\ received' = f.received

\* The event loop leaves the run it executes at an await and goes on with run r.
Switch(r) ==
    /\ AtAwait
    /\ r \in DOMAIN suspended
    /\ suspended' = [x \in (DOMAIN suspended \ {r}) \cup {current} |->
                        IF x = current THEN Frame ELSE suspended[x]]
    /\ current' = r
    /\ Resume(suspended[r])
    /\ UNCHANGED <<options_tools, tools, max_iterations, tracing, store, applied>>

Next ==
    \/ \E user_message \in UserMessages : RunStart(user_message)
    \/ Iterate
    \/ ModelFail
    \/ \E m \in Responses(MaxRequests - Requested(messages)) : ModelReturn(m)
    \/ Dispatch
    \/ ExecReturn
    \/ Exit

\* Runs with a tracing collaborator whose calls return.
Spec == Init /\ [][Next]_vars

\* Runs with a tracing collaborator whose span.log calls may raise.
SpecTrace == InitTrace /\ [][Next]_vars

\* Runs in which no step that can be taken is put off for ever: the model
\* call and every tool execute eventually return or raise.
SpecLive == Init /\ [][Next]_vars /\ WF_vars(Next)

\* Runs of an agent whose tool list uses a name twice.
SpecRegistry == InitRegistry /\ [][Next]_vars

NextRuns ==
    \/ \E user_message \in SubscriptionMessages : RunStart(user_message)
    \/ Iterate
    \/ ModelFail
    \/ \E m \in SubscriptionResponses(MaxRunRequests - Requested(messages)) : ModelReturn(m)
    \/ Dispatch
    \/ ExecReturn
    \/ Exit
    \/ \E r \in OtherRuns \cup {1} : Switch(r)

\* Run invocations interleaved at their awaits, their tools on one store.
SpecRuns == InitRuns /\ [][NextRuns]_vars

----------------------------------------------------------------------------
(* Vocabulary of the properties.                                            *)

IsAssistant(m) == m.role = "assistant"

AssistantMessages(ms) == SelectSeq(ms, IsAssistant)

\* an assistant message with non-empty text content and no tool calls
TextOnly(m) ==
    IsAssistant(m) /\ m.tool_calls = <<>> /\ m.content.kind = "text" /\ m.content.text # ""

\* every model response consumed so far requested at least one tool call
AllToolRounds ==
    \A i \in DOMAIN messages : IsAssistant(messages[i]) => messages[i].tool_calls # <<>>

\* the request the for loop is at
CurrentCall == message.tool_calls[tool_call_i]

\* what the step that settles the current request with tool message res does:
\* the next request of the round is taken up, or the round ends and the
\* iteration is counted; nothing is raised
SettledWith(res) ==
    /\ raised' = "none"
    /\ tool_results' = Append(tool_results, res)
    /\ IF tool_call_i < Len(message.tool_calls)
       THEN pc' = "tools" /\ tool_call_i' = tool_call_i + 1 /\ messages' = messages
            /\ iterations' = iterations
       ELSE pc' = "loop" /\ messages' = messages \o Append(tool_results, res)
            /\ iterations' = iterations + 1

\* the tool-result message a request gets when no tracing call fails
ExpectedResult(call) ==
    IF call.name \notin DOMAIN tools
    THEN ToolMessage(call.id, "Error: Tool " \o call.name \o " not found")
    ELSE LET args == JsonLoads(call.arguments)
         IN  IF ~args.ok
             THEN ToolMessage(call.id, "Error executing tool: " \o args.err.msg)
             ELSE LET valid == Validate(tools[call.name], args.value)
                  IN  IF ~valid.ok
                      THEN ToolMessage(call.id, "Error executing tool: " \o valid.err.msg)
                      ELSE LET out == Execute(tools[call.name].execute, args.value)
                           IN  IF out.ok
                               THEN ToolMessage(call.id, out.text)
                               ELSE ToolMessage(call.id,
                                                "Error executing tool: " \o out.err.msg)

RECURSIVE Replay(_)
\* the rounds of the transcript that a sequence of model responses produces
Replay(responses) ==
    IF responses = <<>> THEN <<>>
    ELSE LET m == Head(responses)
         IN  <<m>> \o [i \in 1..Len(m.tool_calls) |-> ExpectedResult(m.tool_calls[i])]
                   \o Replay(Tail(responses))

RECURSIVE WellFormedRounds(_)
\* ms is a sequence of rounds: an assistant message followed by one tool-result
\* message per tool-call request, in request order
WellFormedRounds(ms) ==
    IF ms = <<>> THEN TRUE
    ELSE LET m == Head(ms)
             n == Len(m.tool_calls)
         IN  /\ IsAssistant(m)
             /\ Len(ms) >= 1 + n
             /\ \A i \in 1..n : /\ ms[1 + i].role = "tool"
                                /\ ms[1 + i].tool_call_id = m.tool_calls[i].id
             /\ WellFormedRounds(SubSeq(ms, n + 2, Len(ms)))

AtRoundBoundary == pc \in {"loop", "model", "returned", "raised"}

----------------------------------------------------------------------------
(* Properties.                                                              *)

\* C1: once the model has returned a message with non-empty text content and
\* no tool calls, that message ends the transcript, no further model call is
\* made, and run returns exactly its content with total_iterations equal to
\* the number of model-call rounds consumed.
C1_AnswerReturned ==
    \A i \in DOMAIN messages :
        TextOnly(messages[i]) =>
            /\ i = Len(messages)
            /\ pc \in {"loop", "returned"}
            /\ done
            /\ iterations = Len(AssistantMessages(messages))
            /\ modelCalls = iterations
            /\ pc = "returned" =>
                  /\ result = messages[i].content.text
                  /\ metrics.total_iterations = Len(AssistantMessages(messages))
                  /\ ~metrics.max_iterations_reached

\* a run answered in its second round, after a round of tool calls
C1_Witness ==
    /\ pc = "returned"
    /\ result = AnswerText
    /\ metrics.total_iterations = 2
    /\ executed # <<>>

\* C2: the iteration counter and the number of model calls never exceed
\* max_iterations, and a run whose every model response requested a tool call
\* returns the fallback sentinel with max_iterations_reached set and the
\* counter equal to max_iterations.
C2_BudgetExhausted ==
    /\ iterations <= max_iterations
    /\ modelCalls <= max_iterations
    /\ (pc = "loop" /\ AllToolRounds /\ ~LoopCond) => iterations = max_iterations
    /\ (pc = "returned" /\ AllToolRounds) =>
          /\ result = fallback_message
          /\ metrics.max_iterations_reached
          /\ metrics.total_iterations = max_iterations
          /\ iterations = max_iterations
          /\ modelCalls = max_iterations

\* two rounds of tool calls exhaust a budget of two
C2_Witness ==
    /\ pc = "returned"
    /\ AllToolRounds
    /\ max_iterations = 2
    /\ result = fallback_message

\* C3: when run returns, the result decided from the last transcript message
\* agrees with the done flag: with done set the result is the content of the
\* last message, an assistant message, and max_iterations_reached is not set;
\* with done not set the loop ran out of iterations and the result is the
\* fallback sentinel with max_iterations_reached set.
C3_ExitAgreesWithState ==
    pc = "returned" =>
        /\ done <=> ~metrics.max_iterations_reached
        /\ done <=> (IsAssistant(Last(messages)) /\ Truthy(Last(messages).content))
        /\ done => /\ IsAssistant(Last(messages))
                   /\ Last(messages) = message
                   /\ result = (IF message.content.kind = "parts"
                                THEN JoinText(message.content.parts)
                                ELSE message.content.text)
        /\ ~done => /\ result = fallback_message
                    /\ iterations = max_iterations

\* a run that returned the sentinel although its last message is an assistant
\* message (one without content and without tool calls)
C3_Witness ==
    /\ pc = "returned"
    /\ ~done
    /\ IsAssistant(Last(messages))
    /\ Len(AssistantMessages(messages)) = 2

\* C4: a failed model call is fatal: it leaves run as a raised failure, the
\* step of the failure appends nothing and invokes no tool, no result and no
\* metrics are produced, and nothing happens after it.
C4_ModelFailureFatal ==
    /\ [](modelFailed => /\ pc = "raised"
                         /\ raised = "model"
                         /\ result = NoResult
                         /\ metrics = NoMetrics)
    /\ [][(modelFailed' /\ ~modelFailed) =>
              /\ pc = "model"
              /\ messages' = messages
              /\ executed' = executed
              /\ modelCalls' = modelCalls
              /\ iterations' = iterations]_vars
    /\ [][~modelFailed]_vars

\* the model call of the second iteration failed, after a round of tool calls
C4_Witness ==
    /\ modelFailed
    /\ modelCalls = 2
    /\ Len(messages) > 3

\* the awaited execute of the current request raises
ExecuteRaises ==
    /\ pc = "exec"
    /\ CurrentCall.name = "get_user_details"
    /\ CurrentCall.arguments = BobArgsJson

\* C5: when the execute of a registered tool raises, nothing is raised to the
\* caller: the request is answered by a tool-result message with the content
\* "Error executing tool: <message>", the next request of the round is taken
\* up, and after the last one the round ends and the iteration is counted.
C5_ExecuteFailureAbsorbed ==
    [][ExecuteRaises =>
          SettledWith(Msg("tool",
                          Text("Error executing tool: day is out of range for month"),
                          <<>>, CurrentCall.id))]_vars

\* an execute failure was answered, the next request of its round was
\* dispatched too, and the run went on to its next iteration
C5_Witness ==
    /\ pc = "model"
    /\ modelCalls = 2
    /\ \E i \in DOMAIN messages :
          /\ messages[i].content = Text("Error executing tool: day is out of range for month")
          /\ i < Len(messages)
          /\ messages[i + 1].role = "tool"

\* the current request names a tool that is not registered
ToolAbsent ==
    /\ pc = "tools"
    /\ CurrentCall.name \notin {get_all_tools[i].name : i \in DOMAIN get_all_tools}

\* C6: a request naming an unregistered tool is answered by a tool-result
\* message with the content "Error: Tool <name> not found"; no execute is
\* invoked for it, nothing is raised, and the loop goes on with the next
\* request or the next iteration.
C6_ToolNotFound ==
    [][ToolAbsent =>
          /\ SettledWith(Msg("tool",
                             Text("Error: Tool " \o CurrentCall.name \o " not found"),
                             <<>>, CurrentCall.id))
          /\ executed' = executed]_vars

\* a not-found answer is in the transcript, followed by the answer to the
\* next request of its round, and the next iteration has begun
C6_Witness ==
    /\ pc = "model"
    /\ modelCalls = 2
    /\ \E i \in DOMAIN messages :
          /\ messages[i].content = Text("Error: Tool delete_user not found")
          /\ i < Len(messages)
          /\ messages[i + 1].role = "tool"

\* the arguments of the current request are no JSON
ArgumentsNotJson ==
    /\ pc = "tools"
    /\ CurrentCall.name = "search_users"
    /\ CurrentCall.arguments = "{not json"

\* the arguments of the current request miss a field the schema requires
ArgumentsInvalid ==
    /\ pc = "tools"
    /\ CurrentCall.name = "get_user_details"
    /\ CurrentCall.arguments = "{}"

\* C7: a request whose arguments fail json.loads or the schema validation is
\* answered by a tool-result message "Error executing tool: <the failure's
\* message>"; the tool's execute is not invoked for it, and the loop goes on
\* with the next request or the next iteration.
C7_BadArguments ==
    /\ [][ArgumentsNotJson =>
            /\ SettledWith(Msg("tool",
                   Text("Error executing tool: Expecting property name enclosed in double quotes: line 1 column 2 (char 1)"),
                   <<>>, CurrentCall.id))
            /\ executed' = executed]_vars
    /\ [][ArgumentsInvalid =>
            /\ SettledWith(Msg("tool",
                   Text("Error executing tool: validation error for GetUserDetailsSchema: Field required"),
                   <<>>, CurrentCall.id))
            /\ executed' = executed]_vars

\* both kinds of bad arguments were answered in one round without any execute,
\* and the next iteration has begun
C7_Witness ==
    /\ pc = "model"
    /\ modelCalls = 2
    /\ executed = <<>>
    /\ \E i \in DOMAIN messages, j \in DOMAIN messages :
          /\ messages[i].content =
               Text("Error executing tool: validation error for GetUserDetailsSchema: Field required")
          /\ messages[j].content =
               Text("Error executing tool: Expecting property name enclosed in double quotes: line 1 column 2 (char 1)")

\* C8: tracing is observational: no failure of a span.log call reaches the
\* caller of run, and at every round boundary the transcript is the one the
\* model responses produce when no tracing call fails.
C8_TracingObservational ==
    /\ raised # "trace"
    /\ (pc \in {"loop", "model", "returned"}) =>
          messages = SubSeq(messages, 1, 2) \o Replay(AssistantMessages(messages))

\* C9: once run has set up the transcript, it begins with one system message
\* followed by one user message and holds no other system or user message; at
\* every round boundary the rest is a sequence of rounds, each an assistant
\* message immediately followed by exactly one tool-result message per
\* tool-call request, carrying that request's id; inside a round the assistant
\* message ends the transcript and one result per settled request is collected.
C9_TranscriptShape ==
    pc # "idle" =>
        /\ Len(messages) >= 2
        /\ messages[1].role = "system"
        /\ messages[2].role = "user"
        /\ \A i \in 3..Len(messages) : messages[i].role \in {"assistant", "tool"}
        /\ AtRoundBoundary => WellFormedRounds(SubSeq(messages, 3, Len(messages)))
        /\ pc \in {"tools", "exec"} =>
              /\ Last(messages) = message
              /\ WellFormedRounds(SubSeq(messages, 3, Len(messages) - 1))
              /\ Len(tool_results) = tool_call_i - 1
              /\ tool_call_i \in 1..Len(message.tool_calls)

\* a finished round that answered a not-found request, a failed execute and a
\* successful execute
C9_Witness ==
    /\ pc = "loop"
    /\ Len(messages) = 6
    /\ messages[4].content = Text("Error: Tool delete_user not found")
    /\ messages[5].content = Text("Error executing tool: day is out of range for month")
    /\ messages[6].role = "tool"
    /\ Len(executed) = 2

\* the execute of a comes before the execute of b
ExecutedBefore(a, b) ==
    a.round < b.round \/ (a.round = b.round /\ a.index < b.index)

\* C10: the requests of a round are dispatched one after the other in request
\* order: while an execute is awaited the results of all earlier requests of
\* the round are collected and no other execute has begun, the collected
\* results are in request order, and at every round boundary the transcript
\* is the one function of the model responses and the tool outputs.
C10_SequentialDispatch ==
    /\ pc = "exec" => /\ Len(tool_results) = tool_call_i - 1
                      /\ Last(executed) = [round |-> iterations + 1, index |-> tool_call_i]
    /\ \A i \in DOMAIN executed, j \in DOMAIN executed :
          i < j => ExecutedBefore(executed[i], executed[j])
    /\ pc \in {"tools", "exec"} =>
          \A i \in DOMAIN tool_results :
              tool_results[i].tool_call_id = message.tool_calls[i].id
    /\ (pc # "idle" /\ AtRoundBoundary) =>
          messages = SubSeq(messages, 1, 2) \o Replay(AssistantMessages(messages))

\* the second of two successive executes of one round is awaited
C10_Witness ==
    /\ pc = "exec"
    /\ tool_call_i = 2
    /\ Len(executed) = 2
    /\ tool_results[1].content.text # ""

\* C11: every run terminates, returned or raised; a returned run raised
\* nothing, a raised run returned nothing and was left by a model-call failure;
\* and a loop that ran out of iterations without an answer is left by
\* returning the fallback sentinel, never by a raised failure.
C11_Terminates ==
    /\ <>(pc \in {"returned", "raised"})
    /\ [](pc = "returned" => raised = "none")
    /\ [](pc = "raised" => (raised = "model" /\ result = NoResult))
    /\ [][(pc = "loop" /\ ~done /\ iterations >= max_iterations) =>
              /\ pc' = "returned"
              /\ raised' = "none"
              /\ result' = fallback_message
              /\ metrics'.max_iterations_reached]_vars

\* a run that ended EXHAUSTED although one of its rounds requested no tool
C11_Witness ==
    /\ pc = "returned"
    /\ raised = "none"
    /\ metrics.max_iterations_reached
    /\ iterations = max_iterations
    /\ ~AllToolRounds

\* the awaited execute of the current request returns its text
ExecuteSucceeds ==
    /\ pc = "exec"
    /\ CurrentCall.name = "search_users"
    /\ CurrentCall.arguments = "{}"

\* C12: when the execute of a dispatched tool returns text T, the request is
\* answered by a tool-result message whose content is exactly T and whose
\* tool_call_id is the id of the request.
C12_ResultRoundTrip ==
    [][ExecuteSucceeds =>
          SettledWith(Msg("tool", Text(search_users_execute(EmptyArgs).text), <<>>,
                          CurrentCall.id))]_vars

\* the text a successful search returned is in the transcript under the id of
\* the second request of its round
C12_Witness ==
    /\ pc = "loop"
    /\ \E i \in DOMAIN messages :
          /\ messages[i].role = "tool"
          /\ messages[i].tool_call_id = "call_2"
          /\ messages[i].content.text = search_users_execute(EmptyArgs).text

\* C15: the transcript is append-only: every step leaves it unchanged or
\* extends it at its end; no message in it is removed, reordered or modified.
C15_TranscriptAppendOnly ==
    [][/\ Len(messages') >= Len(messages)
       /\ SubSeq(messages', 1, Len(messages)) = messages]_vars

\* the transcript was extended by a second round of tool calls
C15_Witness ==
    /\ pc = "loop"
    /\ iterations = 2
    /\ Last(messages).role = "tool"
    /\ Len(messages) >= 6

\* an assistant message with no content and no tool calls
EmptyResponse(m) ==
    /\ IsAssistant(m)
    /\ m.tool_calls = <<>>
    /\ (m.content.kind = "none" \/ (m.content.kind = "text" /\ m.content.text = ""))

\* C16: a model response without tool calls is appended to the transcript and
\* counted as an iteration; when it has no content either, done stays unset;
\* every consumed response is counted, and a run whose last response was such
\* an empty one returns the fallback sentinel with max_iterations_reached,
\* its budget used up.
C16_EmptyResponseCounted ==
    /\ [][(pc = "model" /\ pc' = "loop") =>
              /\ messages' = Append(messages, message')
              /\ iterations' = iterations + 1
              /\ (EmptyResponse(message') => ~done')]_vars
    /\ []((pc \in {"loop", "returned"}) =>
              /\ iterations = Len(AssistantMessages(messages))
              /\ (EmptyResponse(Last(messages)) => ~done))
    /\ []((pc = "returned" /\ EmptyResponse(Last(messages))) =>
              /\ result = fallback_message
              /\ metrics.max_iterations_reached
              /\ metrics.total_iterations = max_iterations
              /\ iterations = max_iterations)

\* a run whose two responses were both empty, one None and one "", returned
C16_Witness ==
    /\ pc = "returned"
    /\ Len(messages) = 4
    /\ messages[3].content = NoContent
    /\ messages[4].content = Text("")
    /\ EmptyResponse(messages[3])
    /\ EmptyResponse(messages[4])

\* the tool-result messages of the transcript
IsToolResult(m) == m.role = "tool"

\* C18: every tool-call request is consumed at most once: no request has its
\* execute invoked twice, there are never more executes or tool-result
\* messages than requests, at every round boundary there is exactly one
\* tool-result message per request of the transcript, and the i-th result of a
\* round carries the tool_call_id of the round's i-th request.
C18_RequestsConsumedOnce ==
    /\ \A i \in DOMAIN executed, j \in DOMAIN executed :
          i # j => executed[i] # executed[j]
    /\ Len(executed) <= Requested(messages)
    /\ Len(SelectSeq(messages, IsToolResult)) + Len(tool_results) * (IF pc \in {"tools", "exec"} THEN 1 ELSE 0)
          <= Requested(messages)
    /\ (pc # "idle" /\ AtRoundBoundary) =>
          /\ Len(SelectSeq(messages, IsToolResult)) = Requested(messages)
          /\ WellFormedRounds(SubSeq(messages, 3, Len(messages)))
    /\ pc \in {"tools", "exec"} =>
          /\ Len(tool_results) = tool_call_i - 1
          /\ \A i \in DOMAIN tool_results :
                tool_results[i].tool_call_id = CallId(i)
                /\ message.tool_calls[i].id = CallId(i)

\* three requests of one round were consumed, two of them by an execute
C18_Witness ==
    /\ pc = "loop"
    /\ Len(message.tool_calls) = 3
    /\ Len(executed) = 2
    /\ Last(messages).tool_call_id = "call_3"

\* C19: when run returns ANSWERED and the content of the last assistant
\* message is a list of parts, the result is the texts of its text-bearing
\* parts joined in order; when the content is a text, the result is that text.
C19_MultiPartContent ==
    (pc = "returned" /\ done) =>
        /\ Last(messages).content = Parts(<<TextPart("Here "), ImagePart, TextPart("it is.")>>)
              => result = "Here it is."
        /\ Last(messages).content.kind = "text"
              => result = Last(messages).content.text

\* a run returned the joined texts of a three-part content
C19_Witness ==
    /\ pc = "returned"
    /\ done
    /\ Last(messages).content.kind = "parts"
    /\ Len(Last(messages).content.parts) = 3
    /\ result = "Here it is."

\* an assistant message that carries both content and tool-call requests
ContentAndToolCalls(m) ==
    IsAssistant(m) /\ m.tool_calls # <<>> /\ m.content.kind # "none"

\* C17: done is set only when the last message is an assistant message with
\* content and no tool-call requests; a response that carries tool-call
\* requests, with or without content, opens a tool-call round and leaves done
\* unset, all its requests are answered, and a run never returns the content
\* of a message that carried tool-call requests.
C17_AnsweredOnlyWithoutToolCalls ==
    /\ [](done => /\ IsAssistant(Last(messages))
                  /\ Last(messages).tool_calls = <<>>
                  /\ \/ /\ Last(messages).content.kind = "text"
                        /\ Last(messages).content.text # ""
                     \/ /\ Last(messages).content.kind = "parts"
                        /\ Last(messages).content.parts # <<>>)
    /\ [][(pc = "model" /\ messages' # messages /\ message'.tool_calls # <<>>) =>
              /\ pc' = "tools"
              /\ ~done'
              /\ tool_call_i' = 1
              /\ tool_results' = <<>>
              /\ iterations' = iterations]_vars
    /\ []((pc \in {"loop", "returned"}) =>
              \A i \in DOMAIN messages :
                  ContentAndToolCalls(messages[i]) =>
                      /\ Len(messages) >= i + Len(messages[i].tool_calls)
                      /\ \A j \in 1..Len(messages[i].tool_calls) :
                            messages[i + j].role = "tool")
    /\ []((pc = "returned") =>
              /\ ~metrics.max_iterations_reached => Last(messages).tool_calls = <<>>
              /\ \A i \in DOMAIN messages :
                    ContentAndToolCalls(messages[i]) => result # messages[i].content.text)

\* the only response of a run carried content and two tool-call requests; both
\* were answered and the run returned the fallback sentinel
C17_Witness ==
    /\ pc = "returned"
    /\ Len(messages) = 5
    /\ messages[3].content = Text("Let me check.")
    /\ Len(messages[3].tool_calls) = 2
    /\ result = fallback_message

\* the tool the registry holds under name n is the last one of options.tools
\* with that name
LastRegistered(n) ==
    \E i \in DOMAIN options_tools :
        /\ options_tools[i].name = n
        /\ tools[n] = options_tools[i]
        /\ \A j \in DOMAIN options_tools : options_tools[j].name = n => j <= i

\* the current request is a search_users request without arguments
SearchDispatched ==
    /\ pc = "tools"
    /\ CurrentCall.name = "search_users"
    /\ CurrentCall.arguments = "{}"

\* C14: a tool list that uses a name twice builds a registry without a
\* failure; the registry holds exactly the names of the list, each with the
\* last tool registered under it; no step of run modifies it; and dispatch
\* uses that last tool: a search_users request without arguments is refused by
\* the schema of the duplicate when the duplicate was registered last, and is
\* executed when the tool of get_all_tools was.
C14_LastRegistrationWins ==
    /\ [](/\ raised # "tool"
          /\ DOMAIN tools = {options_tools[i].name : i \in DOMAIN options_tools}
          /\ \A n \in DOMAIN tools : LastRegistered(n))
    /\ [][tools' = tools /\ options_tools' = options_tools]_vars
    /\ [][SearchDispatched =>
            IF options_tools[Len(options_tools)].name = "search_users"
            THEN /\ SettledWith(Msg("tool",
                        Text("Error executing tool: validation error for GetUserDetailsSchema: Field required"),
                        <<>>, CurrentCall.id))
                 /\ executed' = executed
            ELSE /\ pc' = "exec"
                 /\ Len(executed') = Len(executed) + 1]_vars

\* with the duplicate registered last, a search_users request without
\* arguments was refused by the duplicate's schema
C14_Witness ==
    /\ pc = "loop"
    /\ options_tools[Len(options_tools)].name = "search_users"
    /\ Len(messages) = 4
    /\ messages[3].tool_calls[1].name = "search_users"
    /\ messages[4].content =
          Text("Error executing tool: validation error for GetUserDetailsSchema: Field required")

\* the run invocations of the event loop
Runs == {current} \cup DOMAIN suspended

\* the locals and history of run invocation r
FrameOf(r) == IF r = current THEN Frame ELSE suspended[r]

\* the request names a registered tool and its arguments parse and validate,
\* so that the tool's execute is awaited for it
ReachesExecute(call) ==
    /\ call.name \in DOMAIN tools
    /\ JsonLoads(call.arguments).ok
    /\ Validate(tools[call.name], JsonLoads(call.arguments).value).ok

\* the content of the tool-result message for an output of an execute
OutputText(out) == IF out.ok THEN out.text ELSE "Error executing tool: " \o out.err.msg

RECURSIVE RoundWith(_, _)
\* the tool-result messages of one round, the requests that reach an execute
\* answered by the outputs given, in order
RoundWith(calls, outputs) ==
    IF calls = <<>> THEN <<>>
    ELSE IF ReachesExecute(Head(calls))
    THEN <<[role |-> "tool", content |-> Text(OutputText(Head(outputs))),
            tool_calls |-> <<>>, tool_call_id |-> Head(calls).id]>>
         \o RoundWith(Tail(calls), Tail(outputs))
    ELSE <<ExpectedResult(Head(calls))>> \o RoundWith(Tail(calls), outputs)

RECURSIVE ReplayWith(_, _)
\* the rounds a run alone produces from the model responses and the tool
\* outputs given
ReplayWith(responses, outputs) ==
    IF responses = <<>> THEN <<>>
    ELSE LET m == Head(responses)
             n == Len(SelectSeq(m.tool_calls, ReachesExecute))
         IN  <<m>> \o RoundWith(m.tool_calls, SubSeq(outputs, 1, n))
                   \o ReplayWith(Tail(responses), SubSeq(outputs, n + 1, Len(outputs)))

\* the run of frame f is between two rounds, before its first or after its last
BetweenRounds(f) == f.pc \in {"loop", "model", "returned", "raised"}

\* C13: run invocations interleaved at their awaits share nothing but the
\* store.  A step of the executing run leaves the locals (transcript,
\* iteration counter, done flag and the rest) of every other run as they
\* were, and a change of the executing run changes no run's locals and not
\* the store.  Between rounds the transcript of every run is the system
\* message, its own user message and the rounds that its own model responses
\* and the tool outputs it received produce in a run alone, with one
\* assistant message per model call that returned; and the result of a run
\* that returned depends on its own transcript only.
C13_RunsIndependent ==
    /\ [][/\ \A r \in Runs : (r # current \/ current' # current) => FrameOf(r)' = FrameOf(r)
          /\ current' # current => store' = store /\ Runs' = Runs]_vars
    /\ [](\A r \in Runs :
            LET f == FrameOf(r)
            IN  /\ f.pc = "idle" => f.messages = <<>>
                /\ BetweenRounds(f) =>
                      /\ \E u \in SubscriptionMessages :
                            f.messages =
                               <<[role |-> "system", content |-> Text(system_prompt),
                                  tool_calls |-> <<>>, tool_call_id |-> NoId],
                                 [role |-> "user", content |-> Text(u),
                                  tool_calls |-> <<>>, tool_call_id |-> NoId]>>
                               \o ReplayWith(AssistantMessages(f.messages), f.received)
                      /\ Len(AssistantMessages(f.messages)) =
                            f.modelCalls - (IF f.pc = "model" \/ f.modelFailed THEN 1 ELSE 0)
                /\ f.pc = "returned" =>
                      f.result = IF f.done
                                 THEN Last(f.messages).content.text
                                 ELSE fallback_message)

\* run 2 was entered, made a request, received its output and returned while
\* run 1 waited for the execute of a different request
C13_Witness ==
    /\ current = 2
    /\ pc = "returned"
    /\ Len(received) = 1
    /\ suspended[1].pc = "exec"
    /\ suspended[1].message.tool_calls # messages[3].tool_calls

\* the value of parameter k of an update, "" when it is not given
Given(u, k) == IF k \in DOMAIN u THEN u[k] ELSE ""

\* the store after the update u has been applied to st as a whole
ApplyUpdate(st, u) ==
    IF u["email"] \notin DOMAIN st THEN st
    ELSE [st EXCEPT ![u["email"]] =
            [plan |-> IF Given(u, "plan") # "" THEN Given(u, "plan") ELSE @.plan,
             status |-> CASE Given(u, "action") = "renew" -> "active"
                          [] Given(u, "action") = "cancel" -> "expired"
                          [] OTHER -> @.status,
             expires |-> IF Given(u, "action") = "renew" THEN "<now + 365 days>Z"
                         ELSE @.expires]]

RECURSIVE ApplyAll(_, _)
\* the store after the updates us have been applied to st one after another
ApplyAll(st, us) ==
    IF us = <<>> THEN st ELSE ApplyAll(ApplyUpdate(st, Head(us)), Tail(us))

RECURSIVE OutputsReceived(_)
\* the number of outputs the runs of S have received from executes
OutputsReceived(S) ==
    IF S = {} THEN 0
    ELSE LET r == CHOOSE x \in S : TRUE
         IN  Len(FrameOf(r).received) + OutputsReceived(S \ {r})

\* the executing run waits for the execute of an update_subscription request
UpdateAwaited ==
    /\ pc = "exec"
    /\ CurrentCall.name = "update_subscription"

\* C20: update_subscription is applied as a whole.  Whatever the interleaving
\* of the runs, the store is the initial store with the completed updates
\* applied one after another in the order of their completion; every output
\* a run received from an execute stands for one completed update, so none is
\* lost; the step in which an update completes writes the store once, with
\* that update applied to the store as it was; and an update for an email the
\* store does not hold is answered by the failure message and leaves the
\* store unchanged.
C20_UpdatesAtomic ==
    /\ [](/\ store = ApplyAll(mock_subscriptions, applied)
          /\ Len(applied) = OutputsReceived(Runs))
    /\ [][(UpdateAwaited /\ current' = current) =>
            LET u == JsonLoads(CurrentCall.arguments).value
            IN  /\ applied' = Append(applied, u)
                /\ store' = ApplyUpdate(store, u)
                /\ u["email"] \notin DOMAIN store =>
                      /\ store' = store
                      /\ SettledWith([role |-> "tool",
                                      content |-> Text("<U+274C> Failed to update subscription: Customer with email "
                                                       \o u["email"] \o " not found"),
                                      tool_calls |-> <<>>,
                                      tool_call_id |-> CurrentCall.id])]_vars
    /\ [][store' # store => UpdateAwaited /\ current' = current]_vars

\* two runs have each completed an update of the same user, one of the plan
\* and one of the status, and the store holds both writes
C20_Witness ==
    /\ Len(applied) = 2
    /\ Len(received) = 1
    /\ Len(suspended[3 - current].received) = 1
    /\ applied[1]["email"] = "jane@co.com"
    /\ applied[2]["email"] = "jane@co.com"
    /\ store["jane@co.com"].plan = "premium"
    /\ store["jane@co.com"].status = "expired"

====
